---- MODULE Spec2Model ----
(***************************************************************************)
(* Model of the simulation engine of SistemaElectricoFuturo                *)
(* (src/js/simulator.js, constants of src/js/charts.js).                   *)
(*                                                                         *)
(* Real quantities (GW, GWh, TWh, EUR/MWh, factors) are fixed-point        *)
(* integers in thousandths; every product and quotient is rounded to the   *)
(* nearest thousandth, as the engine's doubles round to the nearest        *)
(* representable value.  The year is shortened to Horas hours.  The        *)
(* outputs of the seeded generators (demand shape, wind factor, solar      *)
(* factor) are deterministic functions of the derived seeds that the model *)
(* does not compute (they need sin, cos, exp, log): they are drawn from    *)
(* small sets inside the generators' clamp ranges the first time a run     *)
(* reads them and are the same for every later run with the same seed.     *)
(*                                                                         *)
(* The page of src/js/app.js (its busy flag and the callbacks simular()    *)
(* schedules) is a second state machine, SpecPagina, in which the engine   *)
(* run inside a callback is taken by its outcome: it returns or it throws. *)
(***************************************************************************)
EXTENDS Integers, Sequences, FiniteSets, TLC

VARIABLES
    caller,            \* the object handed to the constructor (overrides)
    params,            \* this.params, the merged copy
    instancia,         \* which SimuladorElectrico instance is running (1, 2)
    corrida,           \* number of simular() calls started so far
    pc,                \* position inside simular(): idle, loop, agg, done
    h,                 \* loop index of the hourly loop
    seeds,             \* seeds of the wind, demand and meteo generators
    demandaMediaGW,    \* local of simular()
    nuclearGW,         \* local of simular()
    estadoBateria,     \* local of simular()
    estadoBombeo,      \* local of simular()
    gasAnterior,       \* local of simular()
    mix,               \* HourRecord array
    precios,           \* price array
    demandaHorariaGW,  \* demand array
    traza,             \* per hour: the hour's other locals (flex, deficit, ratio, ...)
    R,                 \* accumulators and results
    clima,             \* generator outputs read so far, per hour
    anterior,          \* Results returned by the previous simular() call
    defecto,           \* the object SEF.PARAMS_DEFAULT
    paramsAnterior,    \* this.params as the previous simular() call read it
    hv,                \* h of generarSerieViento: start of the next wind block
    ui                 \* the page of app.js: busy flag, scheduled callbacks, preset

vars == << caller, params, instancia, corrida, pc, h, seeds, demandaMediaGW,
           nuclearGW, estadoBateria, estadoBombeo, gasAnterior, mix, precios,
           demandaHorariaGW, traza, R, clima, anterior, defecto,
           paramsAnterior, hv, ui >>

----------------------------------------------------------------------------
(* Bounds of the model *)

\* length of the simulated year in the model (the code: 8760)
Horas == 3

\* number of simular() calls the model follows
MaxCorridas == 2

\* length of the year that generarSerieViento partitions into wind blocks
\* (the code: 8760)
HorasViento == 50

\* number of simular() requests of the page the model follows
MaxLlamadas == 3

----------------------------------------------------------------------------
(* Fixed-point arithmetic *)

\* one unit of a real quantity = 1000 thousandths
E == 10 * 100

Max(a, b) == IF a >= b THEN a ELSE b
Min(a, b) == IF a <= b THEN a ELSE b
Min3(a, b, c) == Min(a, Min(b, c))

\* x / d rounded to the nearest integer (d > 0)
Redondear(x, d) == (x \div d) + (IF 2 * (x % d) >= d THEN 1 ELSE 0)

\* a * b of two fixed-point numbers (split so that the product stays in range)
Mul(a, b) == a * (b \div E) + Redondear(a * (b % E), E)

\* a / b of two fixed-point numbers, b > 0 (split so that a * E stays in range)
Div(a, b) == (a \div b) * E + Redondear((a % b) * E, b)

\* a / b as JavaScript computes it when b may be 0: 0/0 is NaN, x/0 is +-Infinity
DivJS(a, b) ==
    IF b = 0 THEN [finito |-> FALSE, valor |-> 0]
    ELSE [finito |-> TRUE, valor |-> IF b > 0 THEN Div(a, b) ELSE -Div(a, -b)]

Finito(v) == [finito |-> TRUE, valor |-> v]

\* x * k for a result of DivJS (NaN and Infinity stay non-finite)
EscalarJS(x, k) == [finito |-> x.finito, valor |-> x.valor * k]

RECURSIVE RaizEntera(_, _, _)
RaizEntera(n, lo, hi) ==
    IF lo >= hi THEN lo
    ELSE LET mid == (lo + hi + 1) \div 2
         IN  IF mid * mid <= n THEN RaizEntera(n, mid, hi)
             ELSE RaizEntera(n, lo, mid - 1)

\* Math.pow(x, 1.5) for a fixed-point x in [0, 1]
Pow15(x) == Mul(x, RaizEntera(x * E, 0, E))

\* Math.pow(b, n) for a fixed-point b and a natural n
RECURSIVE PowNat(_, _)
PowNat(b, n) == IF n = 0 THEN E ELSE Mul(PowNat(b, n - 1), b)

RECURSIVE Suma(_)
Suma(s) == IF s = << >> THEN 0 ELSE Head(s) + Suma(Tail(s))

----------------------------------------------------------------------------
(* Constants of SEF.MODEL (thousandths) *)

HORAS_ANIO == 8760
FACTOR_CO2_GAS == 202
EFICIENCIA_BAT == 900
EFICIENCIA_BOMBEO == 750
FC_NUCLEAR == 900
AUTODESCARGA_BAT == 1
RAMPA_CCGT == 150
MIN_ESTABLE_CCGT == 400

PARAMS_DEFAULT ==
    [ nuclear |-> 7000, solar |-> 25000, eolica |-> 31000, hidraulica |-> 17000,
      ccgt |-> 24000, bateriasPotencia |-> 3000, bateriasCapacidad |-> 10000,
      bombeo |-> 3500, bombeoCapacidad |-> 30000, precioGas |-> 42000,
      precioCO2 |-> 65000, rendimientoCCGT |-> 550, omCCGT |-> 3000,
      cargosSistema |-> 12000, perdidasRed |-> 50, semilla |-> 42,
      demandaAnual |-> 260000, hidraulicidad |-> 1000, anioObjetivo |-> 2030,
      crecimientoDemanda |-> 600, electrificacionTWh |-> 2000,
      eficienciaDemanda |-> 500, aplicarPlanNuclear |-> TRUE,
      cierreNuclear |-> 2035, flexibilidadGW |-> 4000, flexibilidadPct |-> 6000,
      interconexion |-> 3000, precioImport |-> 90000, precioExport |-> 5000,
      precioEscasez |-> 350000 ]

----------------------------------------------------------------------------
(* Caller objects and the constructor *)

\* Objects a caller hands to the constructor: the fields it overrides.
Escenarios ==
    { \* the defaults
      [ semilla |-> 42 ],
      \* nothing installed at all
      [ nuclear |-> 0, solar |-> 0, eolica |-> 0, hidraulica |-> 0, ccgt |-> 0,
        bateriasPotencia |-> 0, bateriasCapacidad |-> 0, bombeo |-> 0,
        bombeoCapacidad |-> 0, interconexion |-> 0, flexibilidadGW |-> 0 ],
      \* scarce system, low efficiency, high scarcity price
      [ nuclear |-> 0, solar |-> 5000, eolica |-> 5000, ccgt |-> 5000,
        bateriasPotencia |-> 0, bateriasCapacidad |-> 0, bombeo |-> 0,
        bombeoCapacidad |-> 0, interconexion |-> 0, demandaAnual |-> 300000,
        rendimientoCCGT |-> 300, precioEscasez |-> 600000, semilla |-> -6 ],
      \* renewable excess, negative system charge, target year after the closure
      [ solar |-> 200000, eolica |-> 150000, demandaAnual |-> 180000,
        cargosSistema |-> -10000, anioObjetivo |-> 2040, semilla |-> 7 ],
      \* the defaults with the CCGT efficiency driven to 0
      [ rendimientoCCGT |-> 0, semilla |-> 123 ],
      \* no storage and no flexible demand, a solar fleet that leaves a small
      \* surplus at low demand, target year and closure year both the base year
      [ solar |-> 17000, eolica |-> 26000, bateriasPotencia |-> 0,
        bateriasCapacidad |-> 0, bombeo |-> 0, bombeoCapacidad |-> 0,
        flexibilidadGW |-> 0, anioObjetivo |-> 2026, cierreNuclear |-> 2026,
        semilla |-> 5 ] }

\* { ...a, ...b }: a new object with the fields of a overridden by those of b
Combinar(a, b) ==
    [ k \in DOMAIN a \cup DOMAIN b |-> IF k \in DOMAIN b THEN b[k] ELSE a[k] ]

\* variant: Object.assign(SEF.PARAMS_DEFAULT, params), the merge written into
\* the defaults object
FusionarEnDefecto(def, dados) ==
    [ params |-> Combinar(def, dados), defecto |-> Combinar(def, dados),
      caller |-> dados ]

\* the constructor: this.params = { ...SEF.PARAMS_DEFAULT, ...params }; what it
\* leaves in this.params, in SEF.PARAMS_DEFAULT and in the caller's object
Fusionar(def, dados) ==
    [ params |-> Combinar(def, dados), defecto |-> def, caller |-> dados ]

\* value of precioEscasez the caller writes into its object between two
\* constructions
EscasezNueva == { 800000 }

----------------------------------------------------------------------------
(* Generator outputs read by one hour of the loop *)

\* serieDemanda[h] (a positive shape factor), calcularSolar(...) in [0, 1],
\* serieViento[h] in [0.02, 0.92]: a calm night and a sunny windy hour at low
\* demand, a sunny calm hour at low and at high demand
Clima ==
    { [ sd |-> 700,  fs |-> 0,   sv |-> 20 ],
      [ sd |-> 700,  fs |-> 900, sv |-> 920 ],
      [ sd |-> 700,  fs |-> 900, sv |-> 20 ],
      [ sd |-> 1200, fs |-> 900, sv |-> 20 ] }

\* rng.next(), a value in [0, 1)
Uniformes == { 0, 999 }

\* Math.floor(48 + rng.next() * 120)
DuracionBloque(u) == (48 * E + u * 120) \div E

\* p.semilla * 7 + 13, p.semilla * 3 + 7, p.semilla * 11 + 37
derivarSemillas(p) ==
    [ viento  |-> p.semilla * 7 + 13,
      demanda |-> p.semilla * 3 + 7,
      meteo   |-> p.semilla * 11 + 37 ]

----------------------------------------------------------------------------
(* Horizon adjustment and hydro availability *)

calcularDemandaAjustada(p) ==
    LET anioBase == 2026
        years    == Max(0, p.anioObjetivo - anioBase)
        crec     == PowNat(E + Redondear(p.crecimientoDemanda, 100), years)
        electr   == p.electrificacionTWh * years
        efic     == Max(850, E - Redondear(p.eficienciaDemanda, 100))
    IN  Max(180000, Min(360000, Mul(Mul(p.demandaAnual, crec) + electr, efic)))

\* variant: the ramp is not floored at 0
NuclearSinSuelo(p) ==
    IF ~p.aplicarPlanNuclear THEN p.nuclear
    ELSE LET anioBase  == 2026
             cierre    == Max(anioBase + 1, p.cierreNuclear)
             years     == Max(0, p.anioObjetivo - anioBase)
             horizonte == Max(1, cierre - anioBase)
         IN  Mul(p.nuclear, E - Redondear(years * E, horizonte))

calcularNuclearDisponible(p) ==
    IF ~p.aplicarPlanNuclear THEN p.nuclear
    ELSE LET anioBase  == 2026
             cierre    == Max(anioBase + 1, p.cierreNuclear)
             years     == Max(0, p.anioObjetivo - anioBase)
             horizonte == Max(1, cierre - anioBase)
         IN  Max(0, Mul(p.nuclear, Max(0, E - Redondear(years * E, horizonte))))

\* Math.floor(dia / 30.5) % 12
MesDe(dia) == ((2 * dia) \div 61) % 12

\* 1000 * cos((mes - 4) * pi / 6)
CosMes == << -500, 0, 500, 866, 1000, 866, 500, 0, -500, -866, -1000, -866 >>

calcularHidro(p, dia) ==
    LET mes            == MesDe(dia)
        baseEstacional == 280 + Mul(280, CosMes[mes + 1])
    IN  Max(80, Min(850, Mul(baseEstacional, p.hidraulicidad)))

----------------------------------------------------------------------------
(* Price formation *)

\* variant: the floor set at 0.10 instead of 0.45
RendimientoSueloBajo(r) == Max(100, r)

\* Math.max(0.45, p.rendimientoCCGT)
RendimientoEfectivo(r) == Max(450, r)

\* costeComb + costeCO2 + p.omCCGT
CosteCCGT(p) ==
    LET calorEsp  == Div(E, RendimientoEfectivo(p.rendimientoCCGT))
        costeComb == Mul(p.precioGas, calorEsp)
        costeCO2  == Mul(Div(FACTOR_CO2_GAS, RendimientoEfectivo(p.rendimientoCCGT)),
                         p.precioCO2)
    IN  costeComb + costeCO2 + p.omCCGT

\* variant: the hydro rule is tried before the gas rule
ReglaHidroAntes(gen, ratioRenovable) ==
    IF ratioRenovable > 1200 THEN 1
    ELSE IF ratioRenovable > 1050 THEN 2
    ELSE IF gen.hidraulica > 500 THEN 4
    ELSE IF gen.gas > 300 THEN 3
    ELSE 5

\* which of the five rules sets the base price
ReglaPrecio(gen, ratioRenovable) ==
    IF ratioRenovable > 1200 THEN 1
    ELSE IF ratioRenovable > 1050 THEN 2
    ELSE IF gen.gas > 300 THEN 3
    ELSE IF gen.hidraulica > 500 THEN 4
    ELSE 5

\* the if / else-if chain that sets precio
PrecioBase(p, gen, ratioRenovable, gasAnt) ==
    LET stressCCGT  == Min(E, Div(gen.gas, Max(500, p.ccgt)))
        stressHidro == Min(E, Div(gen.hidraulica, Max(500, p.hidraulica)))
        regla       == ReglaPrecio(gen, ratioRenovable)
    IN  IF regla = 1 THEN
            LET exceso == ratioRenovable - E
            IN  Max(-20000, 5000 - exceso * 45)
        ELSE IF regla = 2 THEN
            5000 + (1200 - ratioRenovable) * 100
        ELSE IF regla = 3 THEN
            LET primaStress == 12 * Pow15(stressCCGT)
                deltGas     == Max(0, gen.gas - gasAnt)
                primaRampa  == IF deltGas > E THEN 3 * deltGas ELSE 0
            IN  CosteCCGT(p) + primaStress + primaRampa
        ELSE IF regla = 4 THEN
            25000 + 25 * stressHidro
        ELSE
            6000 + (E - ratioRenovable) * 30

\* variant: the import reference is not applied
SueloImportAusente(p, contexto, precio) == precio

\* "Importaciones fijan suelo"
SueloImport(p, contexto, precio) ==
    IF contexto.importacion > 0 THEN
        LET stressImport == Min(E, Div(contexto.importacion, Max(500, p.interconexion)))
        IN  Max(precio, Mul(p.precioImport, 850 + Mul(300, stressImport)))
    ELSE precio

\* variant: the export reference is precioExport - 30
TechoExportSinMargen(p, contexto, precio) ==
    IF contexto.exportacion > 0 THEN Min(precio, p.precioExport - 30000)
    ELSE precio

\* variant: the export reference is not applied
TechoExportAusente(p, contexto, precio) == precio

\* "Exportaciones fijan suelo bajo"
TechoExport(p, contexto, precio) ==
    IF contexto.exportacion > 0 THEN Min(precio, p.precioExport + 10000)
    ELSE precio

\* variant: the scarcity term is taken off the price
EscasezRestada(p, contexto, demandaGW, precio) ==
    IF contexto.deficit > 300 THEN
        LET deficitPct == Div(contexto.deficit, Max(E, demandaGW))
        IN  precio - Mul(p.precioEscasez, Min(E, deficitPct * 4))
    ELSE precio

\* "Escasez (VOLL)"
SueloEscasez(p, contexto, demandaGW, precio) ==
    IF contexto.deficit > 300 THEN
        LET deficitPct == Div(contexto.deficit, Max(E, demandaGW))
        IN  Max(precio, Mul(p.precioEscasez, Min(E, deficitPct * 4)))
    ELSE precio

\* precio * (1 + p.perdidasRed) + p.cargosSistema
AjustesRegulados(p, precio) == Mul(precio, E + p.perdidasRed) + p.cargosSistema

\* variant: only the upper bound is applied
AcotarSoloArriba(precio) == Min(500000, precio)

\* Math.min(500, Math.max(-25, precio))
Acotar(precio) == Min(500000, Max(-25000, precio))

\* the price before the final clamp
PrecioSinAcotar(p, gen, demandaGW, ratioRenovable, contexto, gasAnt) ==
    LET p0 == PrecioBase(p, gen, ratioRenovable, gasAnt)
        p1 == SueloImport(p, contexto, p0)
        p2 == TechoExport(p, contexto, p1)
        p3 == SueloEscasez(p, contexto, demandaGW, p2)
    IN  AjustesRegulados(p, p3)

calcularPrecioMarginal(p, gen, demandaGW, ratioRenovable, contexto, gasAnt) ==
    Acotar(PrecioSinAcotar(p, gen, demandaGW, ratioRenovable, contexto, gasAnt))

----------------------------------------------------------------------------
(* Percentiles *)

RECURSIVE Insertar(_, _)
Insertar(x, s) ==
    IF s = << >> THEN << x >>
    ELSE IF x <= Head(s) THEN << x >> \o s
    ELSE << Head(s) >> \o Insertar(x, Tail(s))

RECURSIVE OrdenAscendente(_)
OrdenAscendente(s) ==
    IF s = << >> THEN << >> ELSE Insertar(Head(s), OrdenAscendente(Tail(s)))

\* variant: the array is used in the order of the hours
SinOrdenar(arr) == arr

\* Float64Array.from(arr).sort(): numeric ascending order
Ordenar(arr) == OrdenAscendente(arr)

percentil(arr, pp) ==
    IF Len(arr) = 0 THEN 0
    ELSE LET sorted == Ordenar(arr)
             k100   == (Len(sorted) - 1) * pp      \* 100 * k
             f      == k100 \div 100
             c      == IF k100 % 100 = 0 THEN f ELSE f + 1
         IN  IF f = c THEN sorted[f + 1]
             ELSE sorted[f + 1] +
                  Redondear((sorted[c + 1] - sorted[f + 1]) * (k100 - 100 * f), 100)

----------------------------------------------------------------------------
(* The hourly dispatch *)

\* variant: the levels and the ramp reference are kept from the preceding run
EstadoHeredado(p, previo) == previo

\* storage levels and ramp reference at the start of a run; previo holds what
\* the preceding run left behind, which simular() never reads: the three are
\* locals initialised at lines 350-352
EstadoInicial(p, previo) ==
    [ bateria |-> Mul(p.bateriasCapacidad, 500),
      bombeo  |-> Mul(p.bombeoCapacidad, 500),
      gas     |-> 0 ]

\* variant: the charge ignores the headroom of the battery
CargaBatSinEspacio(p, excedente, estBat) == Min(excedente, p.bateriasPotencia)

\* Math.min(excedente, p.bateriasPotencia, espacioBat / M.EFICIENCIA_BAT)
CargaBat(p, excedente, estBat) ==
    LET espacioBat == p.bateriasCapacidad - estBat
    IN  Min3(excedente, p.bateriasPotencia, Div(espacioBat, EFICIENCIA_BAT))

\* variant: pumped storage takes at most half of the surplus left
CargaBombeoMitad(p, excedente, estBom) ==
    LET espacioBombeo == p.bombeoCapacidad - estBom
    IN  Min3(excedente \div 2, p.bombeo, Div(espacioBombeo, EFICIENCIA_BOMBEO))

\* Math.min(excedente, p.bombeo, espacioBombeo / M.EFICIENCIA_BOMBEO)
CargaBombeo(p, excedente, estBom) ==
    LET espacioBombeo == p.bombeoCapacidad - estBom
    IN  Min3(excedente, p.bombeo, Div(espacioBombeo, EFICIENCIA_BOMBEO))

\* variant: the battery discharges without looking at its state of charge
DescargaBatSinEstado(p, deficit, estBat) == Min(p.bateriasPotencia, deficit)

\* Math.min(p.bateriasPotencia, estadoBateria, deficit)
DescargaBat(p, deficit, estBat) == Min3(p.bateriasPotencia, estBat, deficit)

\* Math.min(p.bombeo, estadoBombeo, deficit)
DescargaBombeo(p, deficit, estBom) == Min3(p.bombeo, estBom, deficit)

\* variant: gas is limited by the installed capacity only
DespachoGasSinRampa(p, deficit, gasAnt) == Min(deficit, p.ccgt)

\* Math.min(deficit, p.ccgt, maxRampa), maxRampa = p.ccgt * M.RAMPA_CCGT + gasAnterior
DespachoGas(p, deficit, gasAnt) ==
    LET maxRampa == Mul(p.ccgt, RAMPA_CCGT) + gasAnt
    IN  Min3(deficit, p.ccgt, maxRampa)

\* variant: the gas output is not taken off the deficit
RestoSinGas(deficit, gas) == deficit

\* deficit -= gen.gas: what is left of the deficit after the gas step
RestoDeficit(deficit, gas) == deficit - gas

\* the branch excedente > 0
RamaExcedente(p, excedente, estBat, estBom, flexCapGW) ==
    LET cargaBat    == CargaBat(p, excedente, estBat)
        exc1        == excedente - cargaBat
        cargaBombeo == IF exc1 > 0 THEN CargaBombeo(p, exc1, estBom) ELSE 0
        exc2        == exc1 - cargaBombeo
        flexUp      == IF exc2 > 0 /\ flexCapGW > 0 THEN Min(exc2, flexCapGW) ELSE 0
        exc3        == exc2 - flexUp
        exp         == IF exc3 > 0 /\ p.interconexion > 0
                       THEN Min(exc3, p.interconexion) ELSE 0
        exc4        == exc3 - exp
    IN  [ hidraulica |-> 0, gas |-> 0, baterias |-> 0, bombeo |-> 0,
          vertido |-> Max(0, exc4), cargaBaterias |-> cargaBat,
          cargaBombeo |-> cargaBombeo, importacion |-> 0, exportacion |-> exp,
          estBat |-> estBat + Mul(cargaBat, EFICIENCIA_BAT),
          estBom |-> estBom + Mul(cargaBombeo, EFICIENCIA_BOMBEO),
          flexUp |-> flexUp, flexDown |-> 0, deficit |-> 0,
          rama |-> "excedente" ]

\* the branch excedente <= 0
RamaDeficit(p, excedente, estBat, estBom, flexCapGW, hidroDisp, gasAnt) ==
    LET deficit0   == -excedente
        hidraulica == Min(hidroDisp, deficit0)
        d1         == deficit0 - hidraulica
        descBat    == IF d1 > 0 /\ estBat > 0 THEN DescargaBat(p, d1, estBat) ELSE 0
        d2         == d1 - descBat
        descBombeo == IF d2 > 0 /\ estBom > 0 THEN DescargaBombeo(p, d2, estBom) ELSE 0
        d3         == d2 - descBombeo
        flexDown   == IF d3 > 0 /\ flexCapGW > 0 THEN Min(d3, flexCapGW) ELSE 0
        d4         == d3 - flexDown
        imp        == IF d4 > 0 /\ p.interconexion > 0
                      THEN Min(d4, p.interconexion) ELSE 0
        d5         == d4 - imp
        gas        == IF d5 > 0 THEN DespachoGas(p, d5, gasAnt) ELSE 0
        d6         == IF d5 > 0 THEN RestoDeficit(d5, gas) ELSE d5
    IN  [ hidraulica |-> hidraulica, gas |-> gas, baterias |-> descBat,
          bombeo |-> descBombeo, vertido |-> 0, cargaBaterias |-> 0,
          cargaBombeo |-> 0, importacion |-> imp, exportacion |-> 0,
          estBat |-> estBat - descBat, estBom |-> estBom - descBombeo,
          flexUp |-> 0, flexDown |-> flexDown, deficit |-> d6,
          rama |-> "deficit" ]

\* the first part of one iteration: demand, flexible capacity, inflexible
\* base generation and the hydro available this hour
EntradasHora(p, hh, c, demMedia, nucGW) ==
    LET dia       == hh \div 24
        demandaGW == Mul(demMedia, c.sd)
        nuclear   == Mul(nucGW, FC_NUCLEAR)
        solar     == Mul(p.solar, c.fs)
        eolica    == Mul(p.eolica, c.sv)
    IN  [ demandaGW |-> demandaGW,
          flexCapGW |-> Min(p.flexibilidadGW,
                            Mul(demandaGW, Redondear(p.flexibilidadPct, 100))),
          nuclear   |-> nuclear, solar |-> solar, eolica |-> eolica,
          genBase   |-> nuclear + solar + eolica,
          excedente |-> nuclear + solar + eolica - demandaGW,
          hidroDisp |-> Mul(p.hidraulica, calcularHidro(p, dia)) ]

\* variant: the hydro available keeps running in a surplus hour
RamaConHidroFluyente(p, e, estBat, estBom, gasAnt) ==
    IF e.excedente > 0
    THEN [ RamaExcedente(p, e.excedente, estBat, estBom, e.flexCapGW)
             EXCEPT !.hidraulica = e.hidroDisp ]
    ELSE RamaDeficit(p, e.excedente, estBat, estBom, e.flexCapGW, e.hidroDisp, gasAnt)

\* if (excedente > 0) { ... } else { ... }
Rama(p, e, estBat, estBom, gasAnt) ==
    IF e.excedente > 0
    THEN RamaExcedente(p, e.excedente, estBat, estBom, e.flexCapGW)
    ELSE RamaDeficit(p, e.excedente, estBat, estBom, e.flexCapGW, e.hidroDisp, gasAnt)

\* the object gen at the end of the iteration
GenHora(e, r) ==
    [ nuclear |-> e.nuclear, solar |-> e.solar, eolica |-> e.eolica,
      hidraulica |-> r.hidraulica, gas |-> r.gas, baterias |-> r.baterias,
      bombeo |-> r.bombeo, vertido |-> r.vertido,
      cargaBaterias |-> r.cargaBaterias, cargaBombeo |-> r.cargaBombeo,
      importacion |-> r.importacion, exportacion |-> r.exportacion ]

\* demandaGW > 0 ? genBase / demandaGW : 0
RatioRen(e) == IF e.demandaGW > 0 THEN Div(e.genBase, e.demandaGW) ELSE 0

\* the object ctx handed to calcularPrecioMarginal
ContextoPrecio(e, gen) ==
    [ importacion |-> gen.importacion,
      exportacion |-> gen.exportacion,
      deficit |-> Max(0, e.demandaGW - e.genBase - gen.hidraulica - gen.baterias -
                         gen.bombeo - gen.gas - gen.importacion) ]

\* variant: the battery keeps its level, no self-discharge
SinAutodescarga(estBat) == estBat

\* "Autodescarga baterias": estadoBateria *= (1 - M.AUTODESCARGA_BAT)
Autodescarga(estBat) == Mul(estBat, E - AUTODESCARGA_BAT)

\* everything one iteration computed: the HourRecord, the storage levels at its
\* start and end, the ramp reference it read, and the hour's other locals
RegistroHora(e, r, gen, ratioRen, ctx, precio, gasAnt, estBat, estBom) ==
    [ gen |-> gen, demandaGW |-> e.demandaGW, genBase |-> e.genBase,
      flexCapGW |-> e.flexCapGW, hidroDisp |-> e.hidroDisp,
      rama |-> r.rama, flexUp |-> r.flexUp, flexDown |-> r.flexDown,
      deficit |-> r.deficit, ratioRen |-> ratioRen, ctx |-> ctx,
      gasAnterior |-> gasAnt, estBatIni |-> estBat, estBomIni |-> estBom,
      estBat |-> Autodescarga(r.estBat), estBom |-> r.estBom,
      precio |-> precio ]

\* 1 when the condition of a counter holds, else 0
Cuenta(b) == IF b THEN 1 ELSE 0

\* variant: every hour of the deficit branch is counted
DeficitSinUmbral(d) == d.rama = "deficit"

\* "Deficit real no cubierto": if (deficit > 0.3), inside the deficit branch
DeficitReal(d) == d.rama = "deficit" /\ d.deficit > 300

\* the accumulators of R after one hour (TWh accumulators are kept in
\* millionths of a TWh, so that x / 1000 of a GW value in thousandths is exact)
AcumularHora(p, acc, d) ==
    [ acc EXCEPT
        !.consumoGasTWh      = @ + d.gen.gas,
        !.emisionesAnuales   = @ + Mul(d.gen.gas,
                                   Div(FACTOR_CO2_GAS,
                                       RendimientoEfectivo(p.rendimientoCCGT))),
        !.vertidosTWh        = @ + d.gen.vertido,
        !.horasVertido       = @ + Cuenta(d.rama = "excedente" /\ d.gen.vertido > 300),
        !.horasBombeoActivo  = @ + Cuenta(d.gen.cargaBombeo > 300),
        !.demandaFlexTWh     = @ + d.flexUp,
        !.demandaReducidaTWh = @ + d.flexDown,
        !.horasFlex          = @ + Cuenta(d.flexUp > 200 \/ d.flexDown > 200),
        !.exportacionesTWh   = @ + d.gen.exportacion,
        !.horasExportacion   = @ + Cuenta(d.gen.exportacion > 200),
        !.importacionesTWh   = @ + d.gen.importacion,
        !.horasImportacion   = @ + Cuenta(d.gen.importacion > 200),
        !.horasGas           = @ + Cuenta(d.gen.gas > 300),
        !.horasDeficit       = @ + Cuenta(DeficitReal(d)),
        !.maxDeficit         = IF DeficitReal(d) THEN Max(@, d.deficit) ELSE @,
        !.horasPrecioNegativo = @ + Cuenta(d.precio < 0),
        !.horasPrecioAlto    = @ + Cuenta(d.precio > 150000),
        !.demandaTotalGWh    = @ + d.demandaGW,
        !.precioPonderadoSum = @ + Mul(d.precio, d.demandaGW) ]

\* the object R and the two running sums as simular() declares them
AcumuladoresIniciales(demandaAnualTWh, nucGW) ==
    [ consumoGasTWh |-> 0, vertidosTWh |-> 0, horasGas |-> 0, horasVertido |-> 0,
      horasDeficit |-> 0, maxDeficit |-> 0, emisionesAnuales |-> 0,
      horasBombeoActivo |-> 0, horasPrecioNegativo |-> 0, horasPrecioAlto |-> 0,
      importacionesTWh |-> 0, exportacionesTWh |-> 0,
      demandaFlexTWh |-> 0, demandaReducidaTWh |-> 0,
      horasImportacion |-> 0, horasExportacion |-> 0, horasFlex |-> 0,
      demandaAjustadaTWh |-> demandaAnualTWh, nuclearEfectivaGW |-> nucGW,
      demandaTotalGWh |-> 0, precioPonderadoSum |-> 0 ]

----------------------------------------------------------------------------
(* Aggregation *)

SumaCampo(mixx, campo) == Suma([ i \in 1..Len(mixx) |-> mixx[i][campo] ])

\* variant: the last hour of the year is left out of the buckets
HorasDelMesSinUltima(n, mes) == { i \in 1..(n - 1) : MesDe((i - 1) \div 24) = mes }

\* hours (1-based positions) that fall in the monthly bucket mes
HorasDelMes(n, mes) == { i \in 1..n : MesDe((i - 1) \div 24) = mes }

RECURSIVE SumaSobre(_, _)
SumaSobre(f, S) ==
    IF S = {} THEN 0
    ELSE LET x == CHOOSE y \in S : TRUE IN f[x] + SumaSobre(f, S \ {x})

_calcularResumenMensual(mixx, prec, dem) ==
    [ mes \in 0..11 |->
        LET hs    == HorasDelMes(Len(mixx), mes)
            de(c) == SumaSobre([ i \in 1..Len(mixx) |-> mixx[i][c] ], hs)
            horas == Cardinality(hs)
        IN  [ nuclear |-> de("nuclear"), solar |-> de("solar"),
              eolica |-> de("eolica"), hidraulica |-> de("hidraulica"),
              gas |-> de("gas"),
              baterias |-> de("baterias") + de("bombeo"),
              vertido |-> de("vertido"), importacion |-> de("importacion"),
              exportacion |-> de("exportacion"),
              demanda |-> SumaSobre(dem, hs),
              precio |-> SumaSobre(prec, hs), horas |-> horas,
              precioMedio |-> IF horas > 0
                              THEN Redondear(SumaSobre(prec, hs), horas) ELSE 0 ] ]

RECURSIVE Minimo(_)
Minimo(s) == IF Len(s) = 1 THEN s[1] ELSE Min(Head(s), Minimo(Tail(s)))

RECURSIVE Maximo(_)
Maximo(s) == IF Len(s) = 1 THEN s[1] ELSE Max(Head(s), Maximo(Tail(s)))

\* (genRenovable / genTotal) * 100 and (genGas / genTotal) * 100: plain divisions
Cobertura(parte, genTotal) == EscalarJS(DivJS(parte, genTotal), 100)

\* the fields simular() adds to R after the loop
Agregados(acc, mixx, prec, dem) ==
    LET precioMedio  == Redondear(Suma(prec), Horas)
        genTotal     == SumaCampo(mixx, "nuclear") + SumaCampo(mixx, "solar") +
                        SumaCampo(mixx, "eolica") + SumaCampo(mixx, "hidraulica") +
                        SumaCampo(mixx, "gas") + SumaCampo(mixx, "baterias") +
                        SumaCampo(mixx, "bombeo") + SumaCampo(mixx, "importacion")
        genRenovable == SumaCampo(mixx, "solar") + SumaCampo(mixx, "eolica") +
                        SumaCampo(mixx, "hidraulica")
        genGas       == SumaCampo(mixx, "gas")
        genVRE       == SumaCampo(mixx, "solar") + SumaCampo(mixx, "eolica")
    IN  [ precioMedio |-> precioMedio,
          precioMedioPonderado |->
              IF acc.demandaTotalGWh > 0
              THEN Div(acc.precioPonderadoSum, acc.demandaTotalGWh)
              ELSE precioMedio,
          precioP10     |-> percentil(prec, 10),
          precioMediana |-> percentil(prec, 50),
          precioP90     |-> percentil(prec, 90),
          precioMin     |-> Minimo(prec),
          precioMax     |-> Maximo(prec),
          coberturaRenovable |-> Cobertura(genRenovable, genTotal),
          dependenciaGas     |-> Cobertura(genGas, genTotal),
          vertidosPct   |-> IF genVRE > 0
                            THEN Div(acc.vertidosTWh, genVRE) * 100 ELSE 0,
          mensual       |-> _calcularResumenMensual(mixx, prec, dem) ]

\* the object simular() returns
Resultados == [ R |-> R, mix |-> mix, precios |-> precios,
                demandaHoraria |-> demandaHorariaGW ]

----------------------------------------------------------------------------
(* The page (app.js) *)

\* the fields in which the presets 0 and 1 of SEF.ESCENARIOS differ from
\* SEF.PARAMS_DEFAULT
DiferenciasPreset ==
    [ id \in { 0, 1 } |->
        IF id = 0
        THEN [ solar |-> 24000, anioObjetivo |-> 2026, crecimientoDemanda |-> 200,
               electrificacionTWh |-> 1000, eficienciaDemanda |-> 300,
               flexibilidadGW |-> 3000, flexibilidadPct |-> 5000 ]
        ELSE [ nuclear |-> 3000, solar |-> 76000, eolica |-> 62000, ccgt |-> 26000,
               bateriasPotencia |-> 15000, bateriasCapacidad |-> 60000,
               bombeo |-> 7000, bombeoCapacidad |-> 50000, precioGas |-> 45000,
               precioCO2 |-> 85000, rendimientoCCGT |-> 570, omCCGT |-> 3500,
               cargosSistema |-> 11500, perdidasRed |-> 45, semilla |-> 123,
               demandaAnual |-> 270000, crecimientoDemanda |-> 700,
               electrificacionTWh |-> 3000, eficienciaDemanda |-> 800,
               flexibilidadGW |-> 6000, flexibilidadPct |-> 8000,
               interconexion |-> 4000, precioImport |-> 95000,
               precioExport |-> 6000 ] ]

\* SEF.getEscenario(id).params: every field of the parameter object
Preset(id) == Combinar(PARAMS_DEFAULT, DiferenciasPreset[id])

\* the page before it is mounted: simulando = ref(false), nothing scheduled
PaginaInicial ==
    [ montado |-> FALSE, simulando |-> FALSE, cuadros |-> 0,
      temporizadores |-> 0, llamadas |-> 0, errores |-> 0,
      escenarioActual |-> 0 ]

\* the finally of the timer callback: simulando.value = false
PaginaAlTerminar(u) ==
    [ u EXCEPT !.temporizadores = @ - 1, !.simulando = FALSE ]

\* simular() of the page: simulando.value = true and a requestAnimationFrame
\* callback is scheduled
PaginaAlPedir(u) ==
    [ u EXCEPT !.simulando = TRUE, !.cuadros = @ + 1, !.llamadas = @ + 1 ]

----------------------------------------------------------------------------
(* The state machine *)

Init ==
    /\ \E c \in Escenarios :
        /\ caller = Fusionar(PARAMS_DEFAULT, c).caller
        /\ defecto = Fusionar(PARAMS_DEFAULT, c).defecto
        /\ params = Fusionar(PARAMS_DEFAULT, c).params
        /\ paramsAnterior = Fusionar(PARAMS_DEFAULT, c).params
    /\ instancia = 1
    /\ corrida = 0
    /\ pc = "idle"
    /\ h = 0
    /\ seeds = [ viento |-> 0, demanda |-> 0, meteo |-> 0 ]
    /\ demandaMediaGW = 0
    /\ nuclearGW = 0
    /\ estadoBateria = 0
    /\ estadoBombeo = 0
    /\ gasAnterior = 0
    /\ mix = << >>
    /\ precios = << >>
    /\ demandaHorariaGW = << >>
    /\ traza = << >>
    /\ R = AcumuladoresIniciales(0, 0)
    /\ clima = << >>
    /\ anterior = << >>
    /\ hv = 0
    /\ ui = PaginaInicial

\* new SEF.SimuladorElectrico(params): a second instance from the same object
Construir ==
    /\ UNCHANGED ui
    /\ pc = "done"
    /\ instancia = 1
    /\ corrida < MaxCorridas
    /\ params' = Fusionar(defecto, caller).params
    /\ defecto' = Fusionar(defecto, caller).defecto
    /\ caller' = Fusionar(defecto, caller).caller
    /\ instancia' = 2
    /\ anterior' = << Resultados >>
    /\ paramsAnterior' = params
    /\ pc' = "idle"
    /\ UNCHANGED << corrida, h, seeds, demandaMediaGW, nuclearGW,
                    estadoBateria, estadoBombeo, gasAnterior, mix, precios,
                    demandaHorariaGW, traza, R, clima, hv >>

\* the caller raises precioEscasez in its own object after a run, before it
\* builds the next instance from it
Reconfigurar ==
    /\ UNCHANGED ui
    /\ pc = "done"
    /\ instancia = 1
    /\ corrida < MaxCorridas
    /\ params = Combinar(defecto, caller)
    /\ \E pe \in EscasezNueva :
        /\ pe > params.precioEscasez
        /\ caller' = Combinar(caller, [ precioEscasez |-> pe ])
    /\ UNCHANGED << params, instancia, corrida, pc, h, seeds, demandaMediaGW,
                    nuclearGW, estadoBateria, estadoBombeo, gasAnterior, mix,
                    precios, demandaHorariaGW, traza, R, clima, anterior,
                    defecto, paramsAnterior, hv >>

\* simular(), from its first line to the start of the hourly loop
Simular ==
    /\ UNCHANGED ui
    /\ \/ pc = "idle"
       \/ pc = "done" /\ corrida < MaxCorridas
    /\ LET demandaAnualTWh == calcularDemandaAjustada(params)
           nuc             == calcularNuclearDisponible(params)
           ini == EstadoInicial(params, [ bateria |-> estadoBateria,
                                          bombeo |-> estadoBombeo,
                                          gas |-> gasAnterior ])
       IN  /\ demandaMediaGW' = Redondear(demandaAnualTWh * 1000, HORAS_ANIO)
           /\ nuclearGW' = nuc
           /\ seeds' = derivarSemillas(params)
           /\ estadoBateria' = ini.bateria
           /\ estadoBombeo' = ini.bombeo
           /\ gasAnterior' = ini.gas
           /\ R' = AcumuladoresIniciales(demandaAnualTWh, nuc)
    /\ mix' = << >>
    /\ precios' = << >>
    /\ demandaHorariaGW' = << >>
    /\ traza' = << >>
    /\ h' = 0
    /\ corrida' = corrida + 1
    /\ anterior' = IF pc = "done" THEN << Resultados >> ELSE anterior
    /\ paramsAnterior' = IF pc = "done" THEN params ELSE paramsAnterior
    /\ hv' = 0
    /\ pc' = "viento"
    /\ UNCHANGED << caller, params, instancia, clima, defecto >>

\* generarSerieViento: one iteration of the loop that cuts the year into
\* wind blocks
BloqueViento ==
    /\ UNCHANGED ui
    /\ pc = "viento"
    /\ hv < HorasViento
    /\ \E u \in Uniformes : hv' = hv + DuracionBloque(u)
    /\ UNCHANGED << caller, params, instancia, corrida, pc, h, seeds,
                    demandaMediaGW, nuclearGW, estadoBateria, estadoBombeo,
                    gasAnterior, mix, precios, demandaHorariaGW, traza, R, clima,
                    anterior, defecto, paramsAnterior >>

\* generarSerieViento: the block loop ends (its h is a local and is dropped);
\* the series the generators return are read hour by hour in the loop below
FinViento ==
    /\ UNCHANGED ui
    /\ pc = "viento"
    /\ hv >= HorasViento
    /\ hv' = 0
    /\ pc' = "loop"
    /\ UNCHANGED << caller, params, instancia, corrida, h, seeds, demandaMediaGW,
                    nuclearGW, estadoBateria, estadoBombeo, gasAnterior, mix,
                    precios, demandaHorariaGW, traza, R, clima, anterior,
                    defecto, paramsAnterior >>

\* variant: gasAnterior = gen.gas runs before the price is computed
ReferenciaYaActualizada(gasAnt, gen) == gen.gas

\* the gasAnterior that calcularPrecioMarginal receives: the assignment
\* gasAnterior = gen.gas comes after the call
ReferenciaRampa(gasAnt, gen) == gasAnt

\* variant: the hourly loop stops one hour short
FaltaUnaHora(hh) == hh < Horas - 1

\* the condition of the hourly loop, h < M.HORAS_ANIO
HayMasHoras(hh) == hh < Horas

\* one iteration of the hourly loop
Hora ==
    /\ UNCHANGED ui
    /\ pc = "loop"
    /\ HayMasHoras(h)
    /\ \E c \in Clima :
        /\ h < Len(clima) => c = clima[h + 1]
        /\ clima' = IF h < Len(clima) THEN clima ELSE Append(clima, c)
        /\ \E e \in { EntradasHora(params, h, c, demandaMediaGW, nuclearGW) } :
           \E r \in { Rama(params, e, estadoBateria, estadoBombeo, gasAnterior) } :
           \E gen \in { GenHora(e, r) } :
           \E ratioRen \in { RatioRen(e) } :
           \E ctx \in { ContextoPrecio(e, gen) } :
           \E precio \in { calcularPrecioMarginal(params, gen, e.demandaGW,
                                ratioRen, ctx, ReferenciaRampa(gasAnterior, gen)) } :
           \E d \in { RegistroHora(e, r, gen, ratioRen, ctx, precio, gasAnterior,
                                   estadoBateria, estadoBombeo) } :
               /\ estadoBateria' = d.estBat
               /\ estadoBombeo' = d.estBom
               /\ R' = AcumularHora(params, R, d)
               /\ gasAnterior' = gen.gas
               /\ mix' = Append(mix, gen)
               /\ precios' = Append(precios, precio)
               /\ demandaHorariaGW' = Append(demandaHorariaGW, e.demandaGW)
               /\ traza' = Append(traza, d)
    /\ h' = h + 1
    /\ UNCHANGED << caller, params, instancia, corrida, pc, seeds,
                    demandaMediaGW, nuclearGW, anterior, defecto,
                    paramsAnterior, hv >>

\* the aggregations after the loop and the return
Agregar ==
    /\ UNCHANGED ui
    /\ pc = "loop"
    /\ ~HayMasHoras(h)
    /\ R' = Combinar(R, Agregados(R, mix, precios, demandaHorariaGW))
    /\ pc' = "done"
    /\ UNCHANGED << caller, params, instancia, corrida, h, seeds, demandaMediaGW,
                    nuclearGW, estadoBateria, estadoBombeo, gasAnterior, mix,
                    precios, demandaHorariaGW, traza, clima, anterior, defecto,
                    paramsAnterior, hv >>

Next ==
    Construir \/ Reconfigurar \/ Simular \/ BloqueViento \/ FinViento \/ Hora \/
    Agregar

Spec == Init /\ [][Next]_vars

\* the hourly loop takes its next iteration: the step of Hora as the loop
\* index shows it (the body of the iteration has no condition of its own)
AvanceHora == pc = "loop" /\ HayMasHoras(h) /\ h' = h + 1

\* the hourly loop is left and simular() runs to its return: the step of
\* Agregar as the position shows it
AvanceRetorno == pc = "loop" /\ ~HayMasHoras(h) /\ pc' = "done"

\* simular() is one synchronous call: once started, its loops keep stepping
\* until it returns
SpecEjecucion ==
    /\ Spec
    /\ WF_vars(BloqueViento \/ FinViento)
    /\ WF_h(AvanceHora)
    /\ WF_pc(AvanceRetorno)

----------------------------------------------------------------------------
(* The state machine of the page *)

\* the page starts from params = reactive({ ...SEF.PARAMS_DEFAULT }); no
\* engine instance exists yet
InitPagina ==
    /\ caller = PARAMS_DEFAULT
    /\ defecto = PARAMS_DEFAULT
    /\ params = PARAMS_DEFAULT
    /\ paramsAnterior = PARAMS_DEFAULT
    /\ instancia = 1
    /\ corrida = 0
    /\ pc = "idle"
    /\ h = 0
    /\ seeds = [ viento |-> 0, demanda |-> 0, meteo |-> 0 ]
    /\ demandaMediaGW = 0
    /\ nuclearGW = 0
    /\ estadoBateria = 0
    /\ estadoBombeo = 0
    /\ gasAnterior = 0
    /\ mix = << >>
    /\ precios = << >>
    /\ demandaHorariaGW = << >>
    /\ traza = << >>
    /\ R = AcumuladoresIniciales(0, 0)
    /\ clima = << >>
    /\ anterior = << >>
    /\ hv = 0
    /\ ui = PaginaInicial

\* what the steps of the page leave alone: the engine object lives only
\* inside the timer callback
MotorIntacto ==
    UNCHANGED << params, instancia, corrida, pc, h, seeds, demandaMediaGW,
                 nuclearGW, estadoBateria, estadoBombeo, gasAnterior, mix,
                 precios, demandaHorariaGW, traza, R, clima, anterior, defecto,
                 paramsAnterior, hv >>

\* onMounted(() => { simular(); })
Montar ==
    /\ ~ui.montado
    /\ ui' = [ PaginaAlPedir(ui) EXCEPT !.montado = TRUE ]
    /\ UNCHANGED caller
    /\ MotorIntacto

\* the user calls simular() from the page
PedirSimulacion ==
    /\ ui.montado
    /\ ui.llamadas < MaxLlamadas
    /\ ui' = PaginaAlPedir(ui)
    /\ UNCHANGED caller
    /\ MotorIntacto

\* cargarEscenario(id): the preset is copied into params, then simular()
CargarEscenario ==
    /\ ui.montado
    /\ ui.llamadas < MaxLlamadas
    /\ \E id \in { 1 } :
        /\ ui' = [ PaginaAlPedir(ui) EXCEPT !.escenarioActual = id ]
        /\ caller' = Combinar(caller, Preset(id))
    /\ MotorIntacto

\* resetear(): cargarEscenario(0)
Resetear ==
    /\ ui.montado
    /\ ui.llamadas < MaxLlamadas
    /\ ui' = [ PaginaAlPedir(ui) EXCEPT !.escenarioActual = 0 ]
    /\ caller' = Combinar(caller, Preset(0))
    /\ MotorIntacto

\* a requestAnimationFrame callback runs: it schedules the 30 ms timer
Cuadro ==
    /\ ui.cuadros > 0
    /\ ui' = [ ui EXCEPT !.cuadros = @ - 1, !.temporizadores = @ + 1 ]
    /\ UNCHANGED caller
    /\ MotorIntacto

\* a timer callback runs: the engine is built and run and the charts are
\* rendered inside try; whether that returns or throws, finally clears the flag
Temporizador ==
    /\ ui.temporizadores > 0
    /\ \E lanza \in BOOLEAN :
        ui' = [ PaginaAlTerminar(ui) EXCEPT
                  !.errores = IF lanza THEN @ + 1 ELSE @ ]
    /\ UNCHANGED caller
    /\ MotorIntacto

NextPagina ==
    Montar \/ PedirSimulacion \/ CargarEscenario \/ Resetear \/ Cuadro \/
    Temporizador

SpecPagina == InitPagina /\ [][NextPagina]_vars

----------------------------------------------------------------------------
(* Properties *)

\* the hours the running instance has simulated so far (a new instance holds
\* none until its simular() starts)
HorasHechas == IF pc = "idle" THEN {} ELSE 1..Len(traza)

\* capacities, power limits and interconnection are non-negative
NoNegativos(p) ==
    /\ p.nuclear >= 0 /\ p.solar >= 0 /\ p.eolica >= 0 /\ p.hidraulica >= 0
    /\ p.ccgt >= 0 /\ p.bateriasPotencia >= 0 /\ p.bateriasCapacidad >= 0
    /\ p.bombeo >= 0 /\ p.bombeoCapacidad >= 0 /\ p.interconexion >= 0

\* the price of hour i before the final clamp, recomputed from the hour's record
SinAcotarDe(i) ==
    PrecioSinAcotar(params, traza[i].gen, traza[i].demandaGW, traza[i].ratioRen,
                    traza[i].ctx, traza[i].gasAnterior)

\* C1: every price written to precios lies in [-25, 500] EUR/MWh.
C1_PrecioAcotado ==
    \A i \in 1..Len(precios) : precios[i] >= -25000 /\ precios[i] <= 500000

\* C1 witness: an hour whose price before the clamp was above 500 and whose
\* recorded price is 500.
C1_Testigo ==
    \E i \in HorasHechas : SinAcotarDe(i) > 500000 /\ precios[i] = 500000

\* C2: with non-negative capacities and power limits, both storage levels stay
\* between 0 and their capacity at the start of a run and after every hour.
C2_AlmacenEnRango ==
    (pc # "idle" /\ NoNegativos(params)) =>
        /\ 0 <= estadoBateria /\ estadoBateria <= params.bateriasCapacidad
        /\ 0 <= estadoBombeo /\ estadoBombeo <= params.bombeoCapacidad

\* C2 witness: a run in which the battery was charged up to its headroom (less
\* than its power, with surplus left over) and discharged in a later hour.
C2_Testigo ==
    \E i, j \in HorasHechas :
        /\ i < j
        /\ traza[i].gen.cargaBaterias > 0
        /\ traza[i].gen.cargaBaterias < params.bateriasPotencia
        /\ traza[i].gen.vertido + traza[i].gen.exportacion > 0
        /\ traza[j].gen.baterias > 0

\* generation + import + flex reduction - charges - flex increase - export -
\* curtailment of the hour recorded in d
Suministro(d) ==
    d.gen.nuclear + d.gen.solar + d.gen.eolica + d.gen.hidraulica +
    d.gen.baterias + d.gen.bombeo + d.gen.gas + d.gen.importacion + d.flexDown -
    d.gen.cargaBaterias - d.gen.cargaBombeo - d.flexUp - d.gen.exportacion -
    d.gen.vertido

\* C3 as stated: in every hour, also one whose deficit the resources do not
\* cover, demand equals the balance of the flows.
C3_BalanceSinResto ==
    \A i \in HorasHechas : traza[i].demandaGW = Suministro(traza[i])

\* C3 amended: in every hour demand equals the balance of the flows plus the
\* unserved remainder of the hour (0 in a surplus hour).
C3_BalanceConResto ==
    \A i \in HorasHechas :
        /\ traza[i].demandaGW = Suministro(traza[i]) + traza[i].deficit
        /\ traza[i].deficit >= 0
        /\ traza[i].rama = "excedente" => traza[i].deficit = 0

\* C3 witness: a run with a surplus hour that curtails and a deficit hour where
\* gas runs and part of the deficit stays unserved.
C3_Testigo ==
    \E i, j \in HorasHechas :
        /\ traza[i].rama = "excedente" /\ traza[i].gen.vertido > 0
        /\ traza[j].rama = "deficit" /\ traza[j].gen.gas > 0
        /\ traza[j].deficit > 0

\* C4: gas of every hour is at most the gas of the previous hour (0 for the
\* first hour) plus 0.15 of the installed CCGT capacity.
C4_RampaSubida ==
    \A i \in 1..Len(mix) :
        mix[i].gas <= (IF i = 1 THEN 0 ELSE mix[i - 1].gas) +
                      Mul(params.ccgt, RAMPA_CCGT)

\* C4 witness: two consecutive hours with gas, the second held exactly at the
\* previous output plus the ramp, below both the deficit and the capacity.
C4_Testigo ==
    \E i \in 2..Len(mix) :
        /\ mix[i - 1].gas > 0
        /\ mix[i].gas = mix[i - 1].gas + Mul(params.ccgt, RAMPA_CCGT)
        /\ mix[i].gas < params.ccgt
        /\ traza[i].deficit > 0

CamposGen ==
    { "nuclear", "solar", "eolica", "hidraulica", "gas", "baterias", "bombeo",
      "vertido", "cargaBaterias", "cargaBombeo", "importacion", "exportacion" }

\* C5: with non-negative capacities, power limits and interconnection, every
\* field of every HourRecord is >= 0.
C5_CamposNoNegativos ==
    NoNegativos(params) =>
        \A i \in 1..Len(mix) : \A c \in CamposGen : mix[i][c] >= 0

\* C5 witness: a run whose records hold a charging surplus hour and a deficit
\* hour that uses hydro, storage, import and gas.
C5_Testigo ==
    /\ NoNegativos(params)
    /\ \E i, j \in 1..Len(mix) :
        /\ mix[i].cargaBaterias > 0 /\ mix[i].cargaBombeo > 0
        /\ mix[i].exportacion > 0 /\ mix[i].vertido > 0
        /\ mix[j].hidraulica > 0 /\ mix[j].baterias > 0 /\ mix[j].bombeo > 0
        /\ mix[j].importacion > 0 /\ mix[j].gas > 0

\* C6: a simular() call that follows another one with the same parameters, on
\* the same instance or on a new one, returns the same Results.
C6_Determinismo ==
    (pc = "done" /\ corrida >= 2 /\ params = paramsAnterior) =>
        Resultados = anterior[1]

\* C6 witness: a second run on the same instance has finished, after a first
\* run that ended with storage levels away from their initial values and
\* with gas running in its last hour.
C6_Testigo ==
    /\ pc = "done" /\ corrida = 2 /\ instancia = 1 /\ params = paramsAnterior
    /\ gasAnterior > 0
    /\ estadoBateria # Mul(params.bateriasCapacidad, 500)
    /\ estadoBombeo # Mul(params.bombeoCapacidad, 500)

\* C7: the percentiles of the prices of a run are ordered, P10 <= P50 <= P90.
C7_PercentilesOrdenados ==
    pc = "done" => (R.precioP10 <= R.precioMediana /\ R.precioMediana <= R.precioP90)

\* C7 witness: a finished run whose prices were not produced in ascending
\* order and whose three percentiles are strictly increasing.
C7_Testigo ==
    /\ pc = "done"
    /\ \E i \in 2..Len(precios) : precios[i] < precios[i - 1]
    /\ R.precioP10 < R.precioMediana /\ R.precioMediana < R.precioP90

\* C8 as stated: when simular() has completed, every scalar of Results is a
\* finite number, also with nothing installed.
C8_EscalaresFinitos ==
    pc = "done" => (R.coberturaRenovable.finito /\ R.dependenciaGas.finito)

\* the parameters with the CCGT efficiency set to the floor, 0.45
ConRendimientoSuelo(p) == [ p EXCEPT !.rendimientoCCGT = 450 ]

\* C9: for an efficiency in [0, 0.45] every hourly price and the annual
\* emissions are the values computed with efficiency 0.45.
C9_RendimientoDegenerado ==
    (params.rendimientoCCGT >= 0 /\ params.rendimientoCCGT <= 450) =>
        /\ \A i \in HorasHechas :
              precios[i] = calcularPrecioMarginal(ConRendimientoSuelo(params),
                               traza[i].gen, traza[i].demandaGW,
                               traza[i].ratioRen, traza[i].ctx,
                               traza[i].gasAnterior)
        /\ pc # "idle" =>
              R.emisionesAnuales =
                  Suma([ i \in 1..Len(mix) |->
                           Mul(mix[i].gas, Div(FACTOR_CO2_GAS, 450)) ])

\* C9 witness: efficiency 0, emissions accumulated, and an hour whose price
\* is the gas-marginal price (rule 3, no floor or cap above it, not clamped).
C9_Testigo ==
    /\ params.rendimientoCCGT = 0
    /\ R.emisionesAnuales > 0
    /\ \E i \in HorasHechas :
        /\ ReglaPrecio(traza[i].gen, traza[i].ratioRen) = 3
        /\ precios[i] < 500000
        /\ precios[i] = AjustesRegulados(params,
                            PrecioBase(params, traza[i].gen, traza[i].ratioRen,
                                       traza[i].gasAnterior))

\* C10 as stated: the seeds of the wind, demand and meteo generators are
\* pairwise distinct for every base seed.
C10_SemillasDistintas ==
    pc # "idle" =>
        /\ seeds.viento # seeds.demanda
        /\ seeds.viento # seeds.meteo
        /\ seeds.demanda # seeds.meteo

\* the run that has just finished used the parameters of the run before it
\* with nothing changed but a larger, non-negative precioEscasez
EscasezSubida ==
    /\ pc = "done" /\ corrida >= 2
    /\ params.precioEscasez > paramsAnterior.precioEscasez
    /\ params.precioEscasez >= 0
    /\ params = [ paramsAnterior EXCEPT !.precioEscasez = params.precioEscasez ]

\* C11: when a run repeats the previous one with a larger non-negative
\* precioEscasez, the mix is the same hour by hour, no hourly price is lower,
\* and horasPrecioAlto is not lower.
C11_MonotoniaEscasez ==
    EscasezSubida =>
        /\ mix = anterior[1].mix
        /\ \A i \in 1..Len(precios) : precios[i] >= anterior[1].precios[i]
        /\ R.horasPrecioAlto >= anterior[1].R.horasPrecioAlto

\* C11 witness: such a pair of runs in which the scarcity floor was applied, an
\* hourly price rose and horasPrecioAlto rose.
C11_Testigo ==
    /\ EscasezSubida
    /\ \E i \in 1..Len(precios) :
        traza[i].ctx.deficit > 300 /\ precios[i] > anterior[1].precios[i]
    /\ R.horasPrecioAlto > anterior[1].R.horasPrecioAlto

\* the steps of the engine: the constructor and simular()
PasoMotor == Construir \/ Simular \/ BloqueViento \/ FinViento \/ Hora \/ Agregar

\* the steps of simular()
PasoSimular == Simular \/ BloqueViento \/ FinViento \/ Hora \/ Agregar

\* C12: no step of the engine changes the caller's object or the defaults
\* object, the defaults object keeps its value, and no step of simular()
\* writes this.params.
C12_EntradasIntactas ==
    /\ [](defecto = PARAMS_DEFAULT)
    /\ [][PasoMotor => (caller' = caller /\ defecto' = defecto)]_vars
    /\ [][PasoSimular => params' = params]_vars

\* C12 witness: a second instance, built from a caller object that overrides
\* defaults, has finished a run.
C12_Testigo ==
    /\ pc = "done" /\ corrida = 2 /\ instancia = 2
    /\ \E k \in DOMAIN caller : caller[k] # PARAMS_DEFAULT[k]
    /\ params = Combinar(PARAMS_DEFAULT, caller)

\* C13 as stated: in every hour gas is 0 or at least MIN_ESTABLE_CCGT of the
\* installed CCGT capacity.
C13_MinimoEstable ==
    \A i \in 1..Len(mix) :
        mix[i].gas = 0 \/ mix[i].gas >= Mul(params.ccgt, MIN_ESTABLE_CCGT)

\* mix and precios of length Horas, mensual of length 12
FormaFija ==
    /\ Len(Resultados.mix) = Horas /\ Len(Resultados.precios) = Horas
    /\ Cardinality(DOMAIN R.mensual) = 12

\* C14: a started simular() reaches its return; the block loop and the hourly
\* loop end; every step of the hourly loop writes the next index of mix and
\* precios and leaves the earlier ones; the returned Results has mix and
\* precios of the length of the year and mensual of length 12.
C14_TerminaConForma ==
    /\ (pc = "viento") ~> (pc = "loop")
    /\ (pc = "loop") ~> (pc = "done")
    /\ [](pc = "loop" => (Len(mix) = h /\ Len(precios) = h /\ h <= Horas))
    /\ [][(pc = "loop" /\ h' # h) =>
            /\ h' = h + 1 /\ Len(mix') = h' /\ Len(precios') = h'
            /\ \A i \in 1..h : mix'[i] = mix[i] /\ precios'[i] = precios[i]]_vars
    /\ [](pc = "done" => FormaFija)
    /\ [](\A i \in 1..Len(clima) : clima[i] \in Clima)

\* C14 witness: a second simular() call has returned with the fixed shape.
C14_Testigo ==
    pc = "done" /\ corrida = 2 /\ FormaFija /\ h = Horas

\* the flexible capacity of hour i: min(flexibilidadGW, demand x flexibilidadPct / 100)
FlexDe(i) ==
    Min(params.flexibilidadGW,
        Mul(traza[i].demandaGW, Redondear(params.flexibilidadPct, 100)))

\* gas of the hour before hour i (0 before the first hour)
GasPrevio(i) == IF i = 1 THEN 0 ELSE mix[i - 1].gas

\* limits of hydro, battery, pumped storage, flex reduction and import in hour i
LimitesDeficit(i) ==
    << Mul(params.hidraulica, calcularHidro(params, (i - 1) \div 24)),
       Min(params.bateriasPotencia, traza[i].estBatIni),
       Min(params.bombeo, traza[i].estBomIni),
       FlexDe(i),
       params.interconexion >>

\* what hour i took from hydro, battery, pumped storage, flex reduction,
\* import and gas
UsoDeficit(i) ==
    << mix[i].hidraulica, mix[i].baterias, mix[i].bombeo, traza[i].flexDown,
       mix[i].importacion, mix[i].gas >>

\* capacities, limits and the flexibility parameters are non-negative
DominioDespacho ==
    NoNegativos(params) /\ params.flexibilidadGW >= 0 /\ params.flexibilidadPct >= 0

\* C15: in a deficit hour each of hydro, battery, pumped storage, flex
\* reduction and import stays within its limit, a later resource is used only
\* if every earlier one is at its limit, and gas is at most min(capacity,
\* previous gas + 0.15 x capacity).
C15_OrdenDeficit ==
    DominioDespacho =>
        \A i \in HorasHechas :
            traza[i].genBase <= traza[i].demandaGW =>
              LET uso == UsoDeficit(i)
                  lim == LimitesDeficit(i)
              IN
                /\ \A k \in 1..5 : 0 <= uso[k] /\ uso[k] <= lim[k]
                /\ \A j \in 2..6 :
                      uso[j] > 0 => \A k \in 1..(j - 1) : uso[k] = lim[k]
                /\ mix[i].gas <= Min(params.ccgt,
                                     GasPrevio(i) + Mul(params.ccgt, RAMPA_CCGT))

\* C15 witness: a run with a deficit hour that uses all six resources and
\* another deficit hour that ends at a resource used below its limit, with
\* nothing taken from the later ones.
C15_Testigo ==
    /\ DominioDespacho
    /\ \E i, j \in HorasHechas :
        /\ traza[i].genBase <= traza[i].demandaGW
        /\ \A k \in 1..6 : UsoDeficit(i)[k] > 0
        /\ traza[j].genBase <= traza[j].demandaGW
        /\ \E k \in 1..5 :
              /\ UsoDeficit(j)[k] > 0
              /\ UsoDeficit(j)[k] < LimitesDeficit(j)[k]
              /\ \A m \in (k + 1)..6 : UsoDeficit(j)[m] = 0

\* limits of battery charge, pumped charge, flex increase and export in hour i
LimitesExcedente(i) ==
    << Min(params.bateriasPotencia,
           Div(params.bateriasCapacidad - traza[i].estBatIni, EFICIENCIA_BAT)),
       Min(params.bombeo,
           Div(params.bombeoCapacidad - traza[i].estBomIni, EFICIENCIA_BOMBEO)),
       FlexDe(i),
       params.interconexion >>

\* what hour i put into battery, pumped storage, flex increase, export and
\* curtailment
UsoExcedente(i) ==
    << mix[i].cargaBaterias, mix[i].cargaBombeo, traza[i].flexUp,
       mix[i].exportacion, mix[i].vertido >>

\* C16: in a surplus hour each of battery charge, pumped charge, flex increase
\* and export stays within its limit, a later sink is used only if every
\* earlier one is at its limit, curtailment is the remainder, and hydro and
\* gas are 0.
C16_OrdenExcedente ==
    DominioDespacho =>
        \A i \in HorasHechas :
            traza[i].genBase > traza[i].demandaGW =>
              LET uso == UsoExcedente(i)
                  lim == LimitesExcedente(i)
              IN
                /\ \A k \in 1..4 : 0 <= uso[k] /\ uso[k] <= lim[k]
                /\ \A j \in 2..5 :
                      uso[j] > 0 => \A k \in 1..(j - 1) : uso[k] = lim[k]
                /\ mix[i].vertido =
                      traza[i].genBase - traza[i].demandaGW - mix[i].cargaBaterias -
                      mix[i].cargaBombeo - traza[i].flexUp - mix[i].exportacion
                /\ mix[i].hidraulica = 0 /\ mix[i].gas = 0

\* C16 witness: a run with a surplus hour that fills all five sinks and
\* another surplus hour that stops before export and curtailment.
C16_Testigo ==
    /\ DominioDespacho
    /\ \E i, j \in HorasHechas :
        /\ traza[i].genBase > traza[i].demandaGW
        /\ \A k \in 1..5 : UsoExcedente(i)[k] > 0
        /\ traza[j].genBase > traza[j].demandaGW
        /\ UsoExcedente(j)[1] + UsoExcedente(j)[2] + UsoExcedente(j)[3] > 0
        /\ mix[j].exportacion = 0 /\ mix[j].vertido = 0

\* the unserved remainder of hour i: demand less the balance of the flows
RestoNoServido(i) == traza[i].demandaGW - Suministro(traza[i])

\* C17 as stated: the scarcity floor is applied in hour i exactly when the
\* unserved remainder of the hour, flex reduction taken off, exceeds 0.3 GW.
C17_EscasezSegunResto ==
    \A i \in HorasHechas :
        (traza[i].ctx.deficit > 300) <=> (RestoNoServido(i) > 300)

\* the hours whose unserved remainder exceeds 0.3 GW
HorasConDeficit == { i \in HorasHechas : RestoNoServido(i) > 300 }

\* the largest remainder over the hours of HorasConDeficit, 0 when it is empty
MayorResto ==
    IF HorasConDeficit = {} THEN 0
    ELSE LET restos == { RestoNoServido(i) : i \in HorasConDeficit }
         IN  CHOOSE m \in restos : \A x \in restos : m >= x

\* C18: horasDeficit is the number of hours whose unserved remainder exceeds
\* 0.3 GW, maxDeficit is the largest of those remainders (0 when there are
\* none) and so is 0 or above 0.3; neither decreases in a step of the hourly
\* loop.
C18_IndicadoresDeficit ==
    /\ [](pc # "idle" =>
            /\ R.horasDeficit = Cardinality(HorasConDeficit)
            /\ R.maxDeficit = MayorResto
            /\ (R.maxDeficit = 0 \/ R.maxDeficit > 300))
    /\ [][(pc = "loop" /\ h' # h) =>
            (R'.horasDeficit >= R.horasDeficit /\ R'.maxDeficit >= R.maxDeficit)]_vars

\* C18 witness: a finished run with two counted hours of different
\* remainders and a deficit-branch hour that is not counted.
C18_Testigo ==
    /\ pc = "done"
    /\ \E i, j, k \in HorasHechas :
        /\ i < j
        /\ RestoNoServido(i) > 300
        /\ RestoNoServido(j) > RestoNoServido(i)
        /\ traza[k].rama = "deficit" /\ RestoNoServido(k) <= 300
        /\ R.maxDeficit = RestoNoServido(j)
    /\ R.horasDeficit = 2

\* C19 as stated: the ratio handed to the price rules is (solar + wind) / demand.
C19_RatioSolarEolica ==
    \A i \in HorasHechas :
        traza[i].demandaGW > 0 =>
            traza[i].ratioRen =
                Div(mix[i].solar + mix[i].eolica, traza[i].demandaGW)

\* whether hour i meets the condition of rule k
CumpleRegla(k, i) ==
    CASE k = 1 -> traza[i].ratioRen > 1200
      [] k = 2 -> traza[i].ratioRen > 1050
      [] k = 3 -> mix[i].gas > 300
      [] k = 4 -> mix[i].hidraulica > 500
      [] OTHER -> TRUE

\* the first rule, in the order 1..5, whose condition hour i meets
PrimeraRegla(i) ==
    CHOOSE k \in 1..5 : CumpleRegla(k, i) /\ \A j \in 1..(k - 1) : ~CumpleRegla(j, i)

\* the base price rule k gives for hour i
BaseDeRegla(k, i) ==
    CASE k = 1 -> Max(-20000, 5000 - (traza[i].ratioRen - E) * 45)
      [] k = 2 -> 5000 + (1200 - traza[i].ratioRen) * 100
      [] k = 3 -> CosteCCGT(params) +
                  12 * Pow15(Min(E, Div(mix[i].gas, Max(500, params.ccgt)))) +
                  (IF mix[i].gas - traza[i].gasAnterior > E
                   THEN 3 * (mix[i].gas - traza[i].gasAnterior) ELSE 0)
      [] k = 4 -> 25000 + 25 * Min(E, Div(mix[i].hidraulica, Max(500, params.hidraulica)))
      [] OTHER -> 6000 + (E - traza[i].ratioRen) * 30

\* the recorded price that follows from a base price in hour i: import floor,
\* export cap, scarcity floor, regulated adjustments, clamp
PrecioConBase(i, base) ==
    Acotar(AjustesRegulados(params,
        SueloEscasez(params, traza[i].ctx, traza[i].demandaGW,
            TechoExport(params, traza[i].ctx,
                SueloImport(params, traza[i].ctx, base)))))

\* C20: the price of every hour follows from the base price of the first rule,
\* in the order 1..5, whose condition the hour meets; so an hour with ratio
\* <= 1.05 and gas > 0.3 GW takes the gas-marginal base price, whatever hydro is.
C20_PrimeraReglaAplicada ==
    \A i \in HorasHechas :
        /\ precios[i] = PrecioConBase(i, BaseDeRegla(PrimeraRegla(i), i))
        /\ (traza[i].ratioRen <= 1050 /\ mix[i].gas > 300) =>
              precios[i] = PrecioConBase(i, BaseDeRegla(3, i))

\* C20 witness: an hour with ratio <= 1.05, gas > 0.3 GW and hydro > 0.5 GW
\* whose price is the one of the gas rule and not the one of the hydro rule.
C20_Testigo ==
    \E i \in HorasHechas :
        /\ traza[i].ratioRen <= 1050
        /\ mix[i].gas > 300 /\ mix[i].hidraulica > 500
        /\ precios[i] = PrecioConBase(i, BaseDeRegla(3, i))
        /\ precios[i] # PrecioConBase(i, BaseDeRegla(4, i))

\* the import reference of hour i before the regulated adjustments:
\* precioImport x (0.85 + 0.3 x min(1, import / max(0.5, interconexion)))
ReferenciaImport(i) ==
    Mul(params.precioImport,
        850 + Mul(300, Min(E, Div(mix[i].importacion,
                                  Max(500, params.interconexion)))))

\* the regulated adjustments and the clamp applied to a price
PrecioFinalDe(precio) == Acotar(AjustesRegulados(params, precio))

\* C21: in every hour with import > 0, the loss rate being non-negative, the
\* price is at least the import reference after the regulated adjustments and
\* the clamp, whichever rule set the base price.
C21_SueloImportacion ==
    \A i \in HorasHechas :
        (mix[i].importacion > 0 /\ params.perdidasRed >= 0) =>
            precios[i] >= PrecioFinalDe(ReferenciaImport(i))

\* C21 witness: an import hour whose rule gives a base price below the import
\* reference and whose price is the reference, and an import hour priced above
\* its reference.
C21_Testigo ==
    /\ params.perdidasRed >= 0
    /\ \E i, j \in HorasHechas :
        /\ mix[i].importacion > 0
        /\ BaseDeRegla(PrimeraRegla(i), i) < ReferenciaImport(i)
        /\ precios[i] = PrecioFinalDe(ReferenciaImport(i))
        /\ mix[j].importacion > 0
        /\ precios[j] > PrecioFinalDe(ReferenciaImport(j))

C23_RampaBajada ==
    \A i \in HorasHechas :
        mix[i].gas >= GasPrevio(i) - Mul(params.ccgt, RAMPA_CCGT)

\* the battery and pumped levels at the start of hour i: half of the capacity
\* for the first hour of a run, else what the hour before left
NivelAlInicio(i) ==
    IF i = 1
    THEN [ bateria |-> Mul(params.bateriasCapacidad, 500),
           bombeo  |-> Mul(params.bombeoCapacidad, 500) ]
    ELSE [ bateria |-> traza[i - 1].estBat, bombeo |-> traza[i - 1].estBom ]

\* C24: every hour starts from the levels the hour before left (half of the
\* capacity for the first hour); the battery ends the hour at (start + 0.90 x
\* cargaBaterias - baterias) x (1 - 0.001), the pumped storage at start + 0.75
\* x cargaBombeo - bombeo; the levels the next hour will read are those.
C24_RecurrenciaAlmacen ==
    /\ \A i \in HorasHechas :
        /\ traza[i].estBatIni = NivelAlInicio(i).bateria
        /\ traza[i].estBomIni = NivelAlInicio(i).bombeo
        /\ traza[i].estBat =
              Mul(traza[i].estBatIni + Mul(mix[i].cargaBaterias, EFICIENCIA_BAT) -
                  mix[i].baterias, E - AUTODESCARGA_BAT)
        /\ traza[i].estBom =
              traza[i].estBomIni + Mul(mix[i].cargaBombeo, EFICIENCIA_BOMBEO) -
              mix[i].bombeo
    /\ (pc \in { "loop", "done" } /\ traza # << >>) =>
        /\ estadoBateria = traza[Len(traza)].estBat
        /\ estadoBombeo = traza[Len(traza)].estBom
    /\ (pc \in { "viento", "loop" } /\ traza = << >>) =>
        /\ estadoBateria = Mul(params.bateriasCapacidad, 500)
        /\ estadoBombeo = Mul(params.bombeoCapacidad, 500)

\* C24 witness: a run with a surplus hour that charged both reservoirs and a
\* deficit hour that discharged both, the battery losing its 0.1% in each.
C24_Testigo ==
    \E i, j \in HorasHechas :
        /\ mix[i].cargaBaterias > 0 /\ mix[i].cargaBombeo > 0
        /\ traza[i].estBat > traza[i].estBatIni
        /\ traza[i].estBat <
              traza[i].estBatIni + Mul(mix[i].cargaBaterias, EFICIENCIA_BAT)
        /\ mix[j].baterias > 0 /\ mix[j].bombeo > 0
        /\ traza[j].estBat > 0
        /\ traza[j].estBat < traza[j].estBatIni - mix[j].baterias

\* the base price of hour i with the ramp premium taken from the gas output of
\* the hour before: 3 x (gas[h] - gas[h-1]) when rule 3 applies and the rise
\* exceeds 1 GW, no premium otherwise
BaseConPrima(i) ==
    LET k == PrimeraRegla(i)
        subida == mix[i].gas - GasPrevio(i)
    IN  IF k = 3
        THEN CosteCCGT(params) +
             12 * Pow15(Min(E, Div(mix[i].gas, Max(500, params.ccgt)))) +
             (IF subida > E THEN 3 * subida ELSE 0)
        ELSE BaseDeRegla(k, i)

\* C25: the price of hour h is the one calcularPrecioMarginal gives for the
\* dispatch of hour h and the gas output of hour h-1 (0 for the first hour),
\* with the ramp premium 3 x (gas[h] - gas[h-1]) exactly under rule 3 and a
\* rise above 1 GW; after the hour the ramp reference is gas[h].
C25_PrecioAntesDeReferencia ==
    /\ \A i \in HorasHechas :
        /\ traza[i].gasAnterior = GasPrevio(i)
        /\ precios[i] =
              calcularPrecioMarginal(params, mix[i], traza[i].demandaGW,
                                     traza[i].ratioRen, traza[i].ctx, GasPrevio(i))
        /\ precios[i] = PrecioConBase(i, BaseConPrima(i))
    /\ (pc \in { "loop", "done" } /\ mix # << >>) =>
        gasAnterior = mix[Len(mix)].gas

\* C25 witness: an hour after the first, under rule 3, whose gas output rose
\* by more than 1 GW over a positive output of the hour before, and whose
\* price carries the premium of that rise.
C25_Testigo ==
    \E i \in HorasHechas :
        /\ i > 1 /\ PrimeraRegla(i) = 3
        /\ GasPrevio(i) > 0
        /\ mix[i].gas - GasPrevio(i) > E
        /\ precios[i] = PrecioConBase(i, BaseConPrima(i))
        /\ precios[i] >
              PrecioConBase(i, BaseConPrima(i) - 3 * (mix[i].gas - GasPrevio(i)))
        /\ precios[i] # PrecioConBase(i, BaseConPrima(i) + 3 * GasPrevio(i))

\* target years and closure years the sweep of C26 tries, on both sides of
\* the base year 2026
AniosDePrueba == 2024..2032

\* calcularNuclearDisponible for the running parameters with the two years
\* replaced
NuclearCon(objetivo, cierre) ==
    calcularNuclearDisponible([ params EXCEPT !.anioObjetivo = objetivo,
                                               !.cierreNuclear = cierre,
                                               !.aplicarPlanNuclear = TRUE ])

\* C26 as stated: without the plan the effective capacity is the installed
\* one; with it, for every target year and closure year, it lies in
\* [0, nuclear], does not grow with the target year and is 0 for every target
\* year from the closure year on.
C26_NuclearEfectiva ==
    /\ calcularNuclearDisponible([ params EXCEPT !.aplicarPlanNuclear = FALSE ]) =
          params.nuclear
    /\ pc # "idle" => nuclearGW = calcularNuclearDisponible(params)
    /\ \A cierre \in AniosDePrueba, objetivo \in AniosDePrueba :
        /\ 0 <= NuclearCon(objetivo, cierre)
        /\ NuclearCon(objetivo, cierre) <= params.nuclear
        /\ objetivo < 2032 =>
              NuclearCon(objetivo + 1, cierre) <= NuclearCon(objetivo, cierre)
        /\ objetivo >= cierre => NuclearCon(objetivo, cierre) = 0

\* the hours 0..8759 of a full year that fall in bucket mes
HorasAnioDelMes(mes) == { hh \in 0..(HORAS_ANIO - 1) : MesDe(hh \div 24) = mes }

\* over the full year: every hour has its bucket among 0..11, no bucket is
\* empty and the 12 hour counts add up to 8760
ParticionAnual ==
    /\ \A hh \in 0..(HORAS_ANIO - 1) : MesDe(hh \div 24) \in 0..11
    /\ \A mes \in 0..11 : HorasAnioDelMes(mes) # {}
    /\ Suma([ m \in 1..12 |-> Cardinality(HorasAnioDelMes(m - 1)) ]) = HORAS_ANIO

\* the technology fields of a monthly entry
CamposMensuales ==
    { "nuclear", "solar", "eolica", "hidraulica", "gas", "baterias", "vertido",
      "importacion", "exportacion" }

\* the sum of one field over the 12 monthly entries
SumaMensual(campo) == Suma([ m \in 1..12 |-> R.mensual[m - 1][campo] ])

\* the hours of the finished run are split over the buckets: each is in one
\* bucket and the hour counts of the entries add up to the length of the run
RepartoDeHoras ==
    /\ \A i \in 1..Len(mix) :
        Cardinality({ mes \in 0..11 : i \in HorasDelMes(Len(mix), mes) }) = 1
    /\ \A mes \in 0..11 :
        R.mensual[mes].horas = Cardinality(HorasDelMes(Len(mix), mes))
    /\ SumaMensual("horas") = Len(mix)
    /\ SumaMensual("gas") = R.consumoGasTWh
    /\ SumaMensual("vertido") = R.vertidosTWh

\* C27 as stated: the buckets partition the year and, for each technology
\* field of the monthly entries, the 12 values add up to the annual sum of
\* that field over mix.
C27_RollupPorCampo ==
    pc = "done" =>
        /\ ParticionAnual
        /\ RepartoDeHoras
        /\ \A campo \in CamposMensuales :
              SumaMensual(campo) = SumaCampo(mix, campo)

\* C27 amended: the same, except that the monthly field baterias adds up to
\* the annual battery discharge plus the annual pumped-storage discharge.
C27_RollupAlmacenUnido ==
    pc = "done" =>
        /\ ParticionAnual
        /\ RepartoDeHoras
        /\ \A campo \in CamposMensuales \ { "baterias" } :
              SumaMensual(campo) = SumaCampo(mix, campo)
        /\ SumaMensual("baterias") =
              SumaCampo(mix, "baterias") + SumaCampo(mix, "bombeo")

\* C27 witness: a finished run with gas, curtailment, battery discharge and
\* pumped discharge, whose monthly gas adds up to consumoGasTWh.
C27_Testigo ==
    /\ pc = "done"
    /\ R.consumoGasTWh > 0 /\ R.vertidosTWh > 0
    /\ SumaCampo(mix, "baterias") > 0 /\ SumaCampo(mix, "bombeo") > 0
    /\ SumaMensual("gas") = R.consumoGasTWh
    /\ SumaMensual("baterias") > SumaCampo(mix, "baterias")

\* C28: in no hour does storage charge together with storage discharge,
\* import together with export, or curtailment together with gas or hydro.
C28_FlujosOpuestos ==
    \A i \in HorasHechas :
        /\ ~ /\ (mix[i].cargaBaterias > 0 \/ mix[i].cargaBombeo > 0)
             /\ (mix[i].baterias > 0 \/ mix[i].bombeo > 0)
        /\ ~ (mix[i].importacion > 0 /\ mix[i].exportacion > 0)
        /\ ~ /\ mix[i].vertido > 0
             /\ (mix[i].gas > 0 \/ mix[i].hidraulica > 0)

\* C28 witness: a run with a surplus hour that charges both reservoirs,
\* exports and curtails, and a deficit hour that discharges both, imports and
\* runs hydro and gas.
C28_Testigo ==
    \E i, j \in HorasHechas :
        /\ mix[i].cargaBaterias > 0 /\ mix[i].cargaBombeo > 0
        /\ mix[i].exportacion > 0 /\ mix[i].vertido > 0
        /\ mix[j].baterias > 0 /\ mix[j].bombeo > 0
        /\ mix[j].importacion > 0 /\ mix[j].gas > 0 /\ mix[j].hidraulica > 0

\* the price parameters under which C29 is stated
PreciosDeEntradaNoNegativos(p) ==
    /\ p.cargosSistema >= 0 /\ p.perdidasRed >= 0 /\ p.precioGas >= 0
    /\ p.precioCO2 >= 0 /\ p.omCCGT >= 0 /\ p.precioImport >= 0
    /\ p.precioEscasez >= 0 /\ p.precioExport >= -10000

\* C29: with those parameters, every hour with a negative price is a surplus
\* hour priced by rule 1 (ratio > 1.20), and horasPrecioNegativo counts those
\* hours.
C29_NegativosSoloPorExceso ==
    (pc # "idle" /\ PreciosDeEntradaNoNegativos(params)) =>
        /\ \A i \in HorasHechas :
              precios[i] < 0 =>
                  /\ traza[i].ratioRen > 1200
                  /\ PrimeraRegla(i) = 1
                  /\ traza[i].rama = "excedente"
        /\ R.horasPrecioNegativo =
              Cardinality({ i \in HorasHechas : precios[i] < 0 })

\* C29 witness: a run under those parameters with a negative price in an hour
\* of ratio > 1.20, an export hour of ratio between 1.05 and 1.20 and a deficit
\* hour, both priced above 0.
C29_Testigo ==
    /\ pc = "done" /\ PreciosDeEntradaNoNegativos(params)
    /\ R.horasPrecioNegativo = 1
    /\ \E i, j, k \in HorasHechas :
        /\ precios[i] < 0 /\ traza[i].ratioRen > 1200
        /\ PrimeraRegla(j) = 2 /\ mix[j].exportacion > 0 /\ precios[j] > 0
        /\ traza[k].rama = "deficit" /\ precios[k] > 0

\* the callbacks of the page that are scheduled and have not run to their end
Pendientes == ui.cuadros + ui.temporizadores

\* C30 as stated: the flag is true whenever a scheduled callback has not yet
\* run, and false once the last one has finished.
C30_BanderaOcupado ==
    /\ Pendientes > 0 => ui.simulando
    /\ (Pendientes = 0 /\ ui.llamadas > 0) => ~ui.simulando

====
